---- MODULE Spec2Model ----
(***************************************************************************)
(* A model of geekscraper.py: the per-page extraction (parse_page), the    *)
(* coordinator with its thread pool (parse_geekbench), the statistics      *)
(* reduction (calculate_statistics) and the command-line entry (main).     *)
(*                                                                         *)
(* Text is modelled as a sequence of characters, so that str.strip,        *)
(* str.isdigit and int() are computed and not assumed.                     *)
(***************************************************************************)
EXTENDS Integers, Sequences, FiniteSets, Bags, TLC

(***************************************************************************)
(* Bounds of the model.                                                    *)
(***************************************************************************)
\* largest page number that appears in a pagination link
MaxPage == 3
\* largest configured thread count
MaxThreads == 2
\* largest page cap passed to the coordinator
MaxCap == 2
\* largest number of containers of a page given to parse_page on its own
MaxContainers == 2
\* largest number of records given to calculate_statistics
MaxRecords == 3

(***************************************************************************)
(* Text.                                                                   *)
(***************************************************************************)
\* The ASCII decimal digits, in order: DecimalDigits[d + 1] is the digit d.
DecimalDigits == <<"0", "1", "2", "3", "4", "5", "6", "7", "8", "9">>

\* U+00B2 SUPERSCRIPT TWO: a character of Unicode category No with the
\* property Numeric_Type=Digit.  str.isdigit accepts it, int() does not.
SuperscriptTwo == "sup2"

IsDecimalChar(c) == \E d \in 1..10 : DecimalDigits[d] = c

IsWhitespace(c) == c = " "

\* None, as the value of a text field of a record: not a text.
None == <<"None">>

NA == <<"N", "/", "A">>

Unknown == <<"U", "n", "k", "n", "o", "w", "n">>

base_url == <<"https://browser.geekbench.com">>

\* str.isdigit(): true when the text is not empty and every character has
\* Numeric_Type Digit or Decimal.
isdigit(s) ==
    /\ Len(s) > 0
    /\ \A i \in 1..Len(s) : IsDecimalChar(s[i]) \/ s[i] = SuperscriptTwo

RECURSIVE lstrip(_)
lstrip(s) ==
    IF Len(s) > 0 /\ IsWhitespace(s[1]) THEN lstrip(Tail(s)) ELSE s

RECURSIVE rstrip(_)
rstrip(s) ==
    IF Len(s) > 0 /\ IsWhitespace(s[Len(s)])
    THEN rstrip(SubSeq(s, 1, Len(s) - 1))
    ELSE s

\* str.strip()
strip(s) == rstrip(lstrip(s))

DigitValue(c) == (CHOOSE d \in 1..10 : DecimalDigits[d] = c) - 1

RECURSIVE DecimalValue(_)
DecimalValue(s) ==
    IF Len(s) = 0 THEN 0
    ELSE 10 * DecimalValue(SubSeq(s, 1, Len(s) - 1)) + DigitValue(s[Len(s)])

\* int(s) raises ValueError unless the text, surrounding whitespace
\* ignored, is a non-empty run of decimal digits.
int_raises(s) ==
    LET t == strip(s)
    IN  ~(Len(t) > 0 /\ \A i \in 1..Len(t) : IsDecimalChar(t[i]))

\* int(s), where it does not raise.
int(s) == DecimalValue(strip(s))

(***************************************************************************)
(* parse_page: the extraction of the records of one page.                  *)
(*                                                                         *)
(* A container (div.list-col) is given by what the three selectors find in *)
(* it: links (div.col-12.col-lg-4 a), each with its text and its href      *)
(* attribute if any; models (span.list-col-model), each the sequence of    *)
(* its text nodes; scores (span.list-col-text-score), each its text.       *)
(***************************************************************************)
\* select_one: the first match or None, as a sequence of one or no element.
select_one(matches) == SubSeq(matches, 1, IF Len(matches) > 0 THEN 1 ELSE 0)

IsNone(found) == Len(found) = 0

RECURSIVE StrippedStrings(_)
\* Tag.stripped_strings: the text nodes, stripped, without the empty ones.
StrippedStrings(nodes) ==
    IF Len(nodes) = 0 THEN <<>>
    ELSE LET t == strip(nodes[1])
         IN  IF Len(t) = 0 THEN StrippedStrings(Tail(nodes))
             ELSE <<t>> \o StrippedStrings(Tail(nodes))

RECURSIVE JoinSpace(_)
\* ' '.join(parts)
JoinSpace(parts) ==
    IF Len(parts) = 0 THEN <<>>
    ELSE IF Len(parts) = 1 THEN parts[1]
    ELSE parts[1] \o <<" ">> \o JoinSpace(Tail(parts))

\* The body of the inner try of parse_page raises for a container whose
\* link has no href attribute (KeyError) or that has no model span
\* (AttributeError on None).
ExtractRaises(result) ==
    LET result_link == select_one(result.links)
        model_span  == select_one(result.models)
    IN  \/ ~IsNone(result_link) /\ ~result_link[1].hasHref
        \/ IsNone(model_span)

\* ExtractRecord without the strip() of the score texts.
ExtractRecord_nostrip(result) ==
    LET result_link == select_one(result.links)
        model_span  == select_one(result.models)
        scores      == result.scores
    IN  [system      |-> IF ~IsNone(result_link)
                         THEN strip(result_link[1].text) ELSE Unknown,
         model       |-> JoinSpace(StrippedStrings(model_span[1])),
         single_core |-> IF Len(scores) > 0 THEN scores[1] ELSE NA,
         multi_core  |-> IF Len(scores) > 1 THEN scores[2] ELSE NA,
         url         |-> IF ~IsNone(result_link)
                         THEN base_url \o result_link[1].href ELSE None]

\* The record the body of the inner try appends, when it does not raise.
ExtractRecord(result) ==
    LET result_link == select_one(result.links)
        model_span  == select_one(result.models)
        scores      == result.scores
    IN  [system      |-> IF ~IsNone(result_link)
                         THEN strip(result_link[1].text) ELSE Unknown,
         model       |-> JoinSpace(StrippedStrings(model_span[1])),
         single_core |-> IF Len(scores) > 0 THEN strip(scores[1]) ELSE NA,
         multi_core  |-> IF Len(scores) > 1 THEN strip(scores[2]) ELSE NA,
         url         |-> IF ~IsNone(result_link)
                         THEN base_url \o result_link[1].href ELSE None]

RECURSIVE ExtractAll_abort(_)
\* ExtractAll with the try around the loop: the first container whose
\* extraction raises ends the loop.
ExtractAll_abort(containers) ==
    IF Len(containers) = 0 THEN <<>>
    ELSE IF ExtractRaises(containers[1]) THEN <<>>
    ELSE <<ExtractRecord(containers[1])>> \o ExtractAll_abort(Tail(containers))

RECURSIVE ExtractAll(_)
\* The for loop of parse_page over the containers: a container whose
\* extraction raises is skipped, the others append their record in order.
ExtractAll(containers) ==
    IF Len(containers) = 0 THEN <<>>
    ELSE IF ExtractRaises(containers[1]) THEN ExtractAll(Tail(containers))
    ELSE <<ExtractRecord(containers[1])>> \o ExtractAll(Tail(containers))

\* parse_page(url, page_num): response is the outcome of requests.get and
\* raise_for_status, a record with ok and, when ok, the containers of the
\* markup.  Any exception of the fetch is caught and gives [].
parse_page(response) ==
    IF ~response.ok THEN <<>> ELSE ExtractAll(response.containers)

\* parse_page without its outer try: a failed fetch raises to the caller.
parse_page_unguarded(response) == ~response.ok

\* parse_page raises to its caller: never, the outer try catches every
\* Exception of the fetch and of the parse (lines 56-59).
parse_page_raises(response) == FALSE

(***************************************************************************)
(* parse_geekbench: discovery of the page count.                           *)
(*                                                                         *)
(* The first page is given by what soup.select_one('ul.pagination') finds: *)
(* paginations is the sequence of the ul.pagination elements of the page,  *)
(* each the sequence of the texts of its a.page-link anchors.              *)
(***************************************************************************)
\* page_links: the anchors whose stripped text satisfies isdigit.
page_links(links) == SelectSeq(links, LAMBDA a : isdigit(strip(a)))

RECURSIVE MaxInt(_)
\* max(int(a.text) for a in page_links), for a non-empty page_links
MaxInt(links) ==
    IF Len(links) = 1 THEN int(links[1])
    ELSE LET m == MaxInt(Tail(links))
         IN  IF int(links[1]) >= m THEN int(links[1]) ELSE m

\* The pagination scan raises when int() raises on one of the page_links.
ScanRaises(paginations) ==
    LET pagination == select_one(paginations)
    IN  /\ ~IsNone(pagination)
        /\ \E i \in 1..Len(page_links(pagination[1])) :
               int_raises(page_links(pagination[1])[i])

\* total_pages, when the scan does not raise.
TotalPages(paginations) ==
    LET pagination == select_one(paginations)
    IN  IF ~IsNone(pagination) /\ Len(page_links(pagination[1])) > 0
        THEN MaxInt(page_links(pagination[1]))
        ELSE 1

Min(a, b) == IF a <= b THEN a ELSE b

\* An optional integer argument is a sequence: <<>> is None, <<n>> is n.
\* Truthy: the truth value of the argument, false for None and for 0.
Truthy(opt) == Len(opt) > 0 /\ opt[1] # 0

\* PagesToFetch with a cap below 1 raised to 1.
PagesToFetch_clamp(total, cap) ==
    IF Len(cap) > 0 THEN Min(total, IF cap[1] < 1 THEN 1 ELSE cap[1]) ELSE total

\* pages_to_fetch = min(total_pages, max_pages) if max_pages else total_pages
PagesToFetch(total, cap) ==
    IF Truthy(cap) THEN Min(total, cap[1]) ELSE total

\* Urls with range(2, pages_to_fetch): the last page is left out.
Urls_short(n) == <<1>> \o [k \in 1..(IF n >= 3 THEN n - 2 ELSE 0) |-> k + 1]

\* urls: search_url, then one URL per page of range(2, pages_to_fetch + 1).
\* A URL is modelled by the number of the page it addresses.
Urls(n) == <<1>> \o [k \in 1..(IF n >= 2 THEN n - 1 ELSE 0) |-> k + 1]

(***************************************************************************)
(* calculate_statistics                                                    *)
(***************************************************************************)
\* the records that pass the filter of the list comprehension
ValidRecords(benchmarks) ==
    SelectSeq(benchmarks,
              LAMBDA b : isdigit(b.single_core) /\ isdigit(b.multi_core))

RECURSIVE SumSeq(_)
SumSeq(xs) == IF Len(xs) = 0 THEN 0 ELSE xs[1] + SumSeq(Tail(xs))

\* MinSeq that takes the first score for the smallest.
MinSeq_first(xs) == xs[1]

RECURSIVE MinSeq(_)
MinSeq(xs) ==
    IF Len(xs) = 1 THEN xs[1]
    ELSE LET m == MinSeq(Tail(xs)) IN IF xs[1] <= m THEN xs[1] ELSE m

RECURSIVE MaxSeq(_)
MaxSeq(xs) ==
    IF Len(xs) = 1 THEN xs[1]
    ELSE LET m == MaxSeq(Tail(xs)) IN IF xs[1] >= m THEN xs[1] ELSE m

\* round(total / count, 2), in hundredths: the nearest hundredth of the
\* quotient, a tie going to the even one.
Round2(total, count) ==
    LET q == (100 * total) \div count
        r == (100 * total) % count
    IN  IF 2 * r > count THEN q + 1
        ELSE IF 2 * r < count THEN q
        ELSE IF q % 2 = 0 THEN q ELSE q + 1

\* calculate_statistics(benchmarks): kind is "raise" when int() raises in
\* the list comprehension, "empty" for the empty mapping {}, and "stats"
\* for the mapping of the seven values (the means in hundredths).
calculate_statistics(benchmarks) ==
    LET valid == ValidRecords(benchmarks)
        single_scores == [i \in 1..Len(valid) |-> int(valid[i].single_core)]
        multi_scores  == [i \in 1..Len(valid) |-> int(valid[i].multi_core)]
    IN  IF \E i \in 1..Len(valid) :
               int_raises(valid[i].single_core) \/ int_raises(valid[i].multi_core)
        THEN [kind |-> "raise"]
        ELSE IF Len(valid) = 0 THEN [kind |-> "empty"]
        ELSE [kind |-> "stats",
              mean_single_core |-> Round2(SumSeq(single_scores), Len(valid)),
              mean_multi_core  |-> Round2(SumSeq(multi_scores), Len(valid)),
              min_single_core  |-> MinSeq(single_scores),
              max_single_core  |-> MaxSeq(single_scores),
              min_multi_core   |-> MinSeq(multi_scores),
              max_multi_core   |-> MaxSeq(multi_scores),
              sample_count     |-> Len(valid)]

(***************************************************************************)
(* The web site of a run.                                                  *)
(***************************************************************************)
Digit(n) == DecimalDigits[n + 1]

Next_ == <<"N", "e", "x", "t">>

\* the page links 1, 2, ..., n, followed by a link Next
NumberedLinks(n) == [k \in 1..(n + 1) |-> IF k <= n THEN <<Digit(k)>> ELSE Next_]

\* The lists of the texts of the a.page-link anchors of a pagination
\* control: none, a word only, the number 0 only, a superscript digit, a
\* number inside whitespace after a 0, a descending pair, and the links of
\* each page 1..n up to MaxPage followed by Next.
LinkLists ==
    {<<>>, <<Next_>>, <<<<Digit(0)>>>>, <<<<Digit(1)>>, <<SuperscriptTwo>>>>,
     <<<<Digit(0)>>, <<" ", Digit(2), " ">>>>,
     <<<<Digit(MaxPage)>>, <<Digit(1)>>>>}
        \cup {NumberedLinks(n) : n \in 1..MaxPage}

RECURSIVE SeqsUpTo(_, _)
\* the sequences of at most n elements of S
SeqsUpTo(S, n) ==
    IF n = 0 THEN {<<>>}
    ELSE LET shorter == SeqsUpTo(S, n - 1)
         IN  shorter \cup {Append(q, x) : q \in shorter, x \in S}

\* The first pages: without a pagination control, or with one.
FirstPages == {<<>>} \cup {<<links>> : links \in LinkLists}

\* The containers of listing page p: a well-formed entry whose texts carry
\* the page number, on odd pages an entry without its model span, and an
\* entry without link whose only score span is empty (the same on all pages).
SiteMarkup(p) ==
    LET d == Digit(p % 10)
        entry == [links  |-> <<[hasHref |-> TRUE, href |-> <<"/", "v", d>>,
                                text |-> <<" ", "S", d, " ">>]>>,
                  models |-> <<<<<<"M", " ">>, <<" ">>, <<"x", d>>>>>>,
                  scores |-> <<<<d, "0">>, <<" ", "1", d>>>>]
        broken == [links  |-> <<[hasHref |-> TRUE, href |-> <<"/", "b">>,
                                 text |-> <<"B">>]>>,
                   models |-> <<>>,
                   scores |-> <<<<"7">>>>]
        bare  == [links  |-> <<>>,
                  models |-> <<<<<<"m">>>>>>,
                  scores |-> <<<<" ">>>>]
    IN  IF p % 2 = 1 THEN <<entry, broken, bare>> ELSE <<bare, entry>>

(***************************************************************************)
(* The persisted formats.  The content of a file is the sequence of its    *)
(* characters; the names of the keys and of the tags are one element each. *)
(***************************************************************************)
Quote == "\""

Backslash == "\\"

Newline == "\n"

\* the keys of a record, in the order parse_page inserts them
Keys == <<"system", "model", "single_core", "multi_core", "url">>

\* the value of a position at which a scan failed
Failed(i) == [ok |-> FALSE, pos |-> i, val |-> <<>>]

\* the character at position i of f, "EOF" past its end
At(f, i) == IF i \in 1..Len(f) THEN f[i] ELSE "EOF"

\* whether f holds the characters of word from position i on
StartsWith(f, i, word) ==
    /\ i + Len(word) - 1 <= Len(f)
    /\ SubSeq(f, i, i + Len(word) - 1) = word

RECURSIVE Join(_, _)
\* sep.join(parts)
Join(parts, sep) ==
    IF Len(parts) = 0 THEN <<>>
    ELSE IF Len(parts) = 1 THEN parts[1]
    ELSE parts[1] \o sep \o Join(Tail(parts), sep)

Spaces(n) == [k \in 1..n |-> " "]

\* JsonEscape that writes the text as it is.
JsonEscape_raw(s) == s

RECURSIVE JsonEscape(_)
\* the body of the JSON string of the text s, as json.dump writes it with
\* ensure_ascii: the quote, the backslash and the newline behind a
\* backslash, a character outside ASCII as \uXXXX
JsonEscape(s) ==
    IF Len(s) = 0 THEN <<>>
    ELSE (IF s[1] = Quote THEN <<Backslash, Quote>>
          ELSE IF s[1] = Backslash THEN <<Backslash, Backslash>>
          ELSE IF s[1] = Newline THEN <<Backslash, "n">>
          ELSE IF s[1] = SuperscriptTwo
               THEN <<Backslash, "u", "0", "0", "b", "2">>
          ELSE <<s[1]>>) \o JsonEscape(Tail(s))

JsonString(s) == <<Quote>> \o JsonEscape(s) \o <<Quote>>

\* a value of a record: null for None, else a string
JsonValue(v) == IF v = None THEN <<"n", "u", "l", "l">> ELSE JsonString(v)

\* one record, at indent level 1 of indent=4
JsonObject(bench) ==
    <<"{", Newline>>
        \o Join([k \in 1..Len(Keys) |->
                    Spaces(8) \o JsonString(<<Keys[k]>>) \o <<":", " ">>
                        \o JsonValue(bench[Keys[k]])],
                <<",", Newline>>)
        \o <<Newline>> \o Spaces(4) \o <<"}">>

\* create_json_output: the text json.dump(benchmarks, f, indent=4) writes
create_json_output(benchmarks) ==
    IF Len(benchmarks) = 0 THEN <<"[", "]">>
    ELSE <<"[", Newline>>
             \o Join([i \in 1..Len(benchmarks) |->
                         Spaces(4) \o JsonObject(benchmarks[i])],
                     <<",", Newline>>)
             \o <<Newline, "]">>

RECURSIVE SkipWhitespace(_, _)
\* the first position from i on that holds no JSON whitespace
SkipWhitespace(f, i) ==
    IF At(f, i) \in {" ", Newline} THEN SkipWhitespace(f, i + 1) ELSE i

RECURSIVE ScanString(_, _, _)
\* the JSON string whose opening quote is before position i, acc being
\* its text up to there
ScanString(f, i, acc) ==
    LET c == At(f, i)
        e == At(f, i + 1)
    IN  IF c = Quote THEN [ok |-> TRUE, pos |-> i + 1, val |-> acc]
        ELSE IF c \in {"EOF", Newline} THEN Failed(i)
        ELSE IF c = Backslash
             THEN IF e \in {Quote, Backslash}
                  THEN ScanString(f, i + 2, Append(acc, e))
                  ELSE IF e = "n" THEN ScanString(f, i + 2, Append(acc, Newline))
                  ELSE IF StartsWith(f, i + 1, <<"u", "0", "0", "b", "2">>)
                       THEN ScanString(f, i + 6, Append(acc, SuperscriptTwo))
                  ELSE Failed(i)
        ELSE ScanString(f, i + 1, Append(acc, c))

\* the JSON value at position i: a string or null
ScanValue(f, i) ==
    IF At(f, i) = Quote THEN ScanString(f, i + 1, <<>>)
    ELSE IF StartsWith(f, i, <<"n", "u", "l", "l">>)
         THEN [ok |-> TRUE, pos |-> i + 4, val |-> None]
    ELSE Failed(i)

RECURSIVE ScanMembers(_, _, _)
\* after the value of a member, at position after: a comma and the next
\* member, or the end of the object
MemberEnd(f, acc, key, value, after) ==
    IF ~value.ok THEN Failed(after)
    ELSE IF At(f, after) = ","
         THEN ScanMembers(f, SkipWhitespace(f, after + 1),
                          Append(acc, <<key.val, value.val>>))
    ELSE IF At(f, after) = "}"
         THEN [ok |-> TRUE, pos |-> after + 1,
               val |-> Append(acc, <<key.val, value.val>>)]
    ELSE Failed(after)

\* after the key of a member: the colon at position colon, and the value
MemberColon(f, acc, key, colon) ==
    IF ~key.ok \/ At(f, colon) # ":" THEN Failed(colon)
    ELSE MemberEnd(f, acc, key, ScanValue(f, SkipWhitespace(f, colon + 1)),
                   SkipWhitespace(f, ScanValue(f, SkipWhitespace(f, colon + 1)).pos))

\* the members of a JSON object from the key at position i on, acc being
\* the pairs <<key, value>> before it
ScanMembers(f, i, acc) ==
    IF At(f, i) # Quote THEN Failed(i)
    ELSE MemberColon(f, acc, ScanString(f, i + 1, <<>>),
                     SkipWhitespace(f, ScanString(f, i + 1, <<>>).pos))

\* the value of the last pair of pairs whose key is key
Lookup(pairs, key) ==
    LET last == CHOOSE k \in 1..Len(pairs) :
                    /\ pairs[k][1] = key
                    /\ \A j \in (k + 1)..Len(pairs) : pairs[j][1] # key
    IN  pairs[last][2]

\* The dict of the members scanned, as a record.  Only objects with the
\* five keys of a record are read; no other object is among the inputs.
ObjectOf(i, members) ==
    IF ~members.ok THEN Failed(i)
    ELSE IF {members.val[k][1] : k \in 1..Len(members.val)}
                # {<<Keys[k]>> : k \in 1..Len(Keys)}
         THEN Failed(i)
    ELSE [ok |-> TRUE, pos |-> members.pos,
          val |-> [system      |-> Lookup(members.val, <<"system">>),
                   model       |-> Lookup(members.val, <<"model">>),
                   single_core |-> Lookup(members.val, <<"single_core">>),
                   multi_core  |-> Lookup(members.val, <<"multi_core">>),
                   url         |-> Lookup(members.val, <<"url">>)]]

\* the JSON object at position i
ScanObject(f, i) ==
    IF At(f, i) # "{" THEN Failed(i)
    ELSE ObjectOf(i, ScanMembers(f, SkipWhitespace(f, i + 1), <<>>))

RECURSIVE ScanElements(_, _, _)
\* after an element of a JSON array: a comma and the next element, or the
\* end of the array
ElementEnd(f, acc, element, after) ==
    IF ~element.ok THEN Failed(after)
    ELSE IF At(f, after) = ","
         THEN ScanElements(f, SkipWhitespace(f, after + 1),
                           Append(acc, element.val))
    ELSE IF At(f, after) = "]"
         THEN [ok |-> TRUE, pos |-> after + 1, val |-> Append(acc, element.val)]
    ELSE Failed(after)

\* the elements of a JSON array from the one at position i on
ScanElements(f, i, acc) ==
    ElementEnd(f, acc, ScanObject(f, i), SkipWhitespace(f, ScanObject(f, i).pos))

\* the JSON array whose first element, or end, is at position first
ScanArray(f, first) ==
    IF At(f, first) = "]" THEN [ok |-> TRUE, pos |-> first + 1, val |-> <<>>]
    ELSE ScanElements(f, first, <<>>)

\* the document is the array and nothing but whitespace after it
DocumentOf(f, elements) ==
    IF elements.ok /\ SkipWhitespace(f, elements.pos) = Len(f) + 1
    THEN elements
    ELSE Failed(1)

\* json.load of the text f, an array of records: ok is FALSE where it
\* raises JSONDecodeError
JsonDocument(f) ==
    IF At(f, SkipWhitespace(f, 1)) # "[" THEN Failed(1)
    ELSE DocumentOf(f, ScanArray(f, SkipWhitespace(f, SkipWhitespace(f, 1) + 1)))

RECURSIVE XmlEscape(_)
\* the character data of the text s, as ElementTree writes it
XmlEscape(s) ==
    IF Len(s) = 0 THEN <<>>
    ELSE (IF s[1] = "&" THEN <<"&", "a", "m", "p", ";">>
          ELSE IF s[1] = "<" THEN <<"&", "l", "t", ";">>
          ELSE IF s[1] = ">" THEN <<"&", "g", "t", ";">>
          ELSE <<s[1]>>) \o XmlEscape(Tail(s))

\* An element without children whose text is text, as ET.tostring writes
\* it: the short form when the text is None or empty.
XmlElement(tag, text) ==
    IF text = None \/ Len(text) = 0 THEN <<"<", tag, " ", "/", ">">>
    ELSE <<"<", tag, ">">> \o XmlEscape(text) \o <<"<", "/", tag, ">">>

\* the element benchmark of one record; every record has the key url
XmlBenchmark(bench) ==
    <<"<", "benchmark", ">">>
        \o XmlElement("system", bench.system)
        \o XmlElement("model", bench.model)
        \o XmlElement("single_core_score", bench.single_core)
        \o XmlElement("multi_core_score", bench.multi_core)
        \o XmlElement("url", bench.url)
        \o <<"<", "/", "benchmark", ">">>

\* create_xml_output: the text ET.tostring(root, encoding='utf-8',
\* method='xml').decode() of the element benchmarks
create_xml_output(benchmarks) ==
    IF Len(benchmarks) = 0 THEN <<"<", "benchmarks", " ", "/", ">">>
    ELSE <<"<", "benchmarks", ">">>
             \o Join([i \in 1..Len(benchmarks) |-> XmlBenchmark(benchmarks[i])],
                     <<>>)
             \o <<"<", "/", "benchmarks", ">">>

RECURSIVE ScanText(_, _, _)
\* the character data from position i up to the next tag
ScanText(f, i, acc) ==
    LET c == At(f, i)
    IN  IF c = "<" THEN [ok |-> TRUE, pos |-> i, val |-> acc]
        ELSE IF c = "EOF" THEN Failed(i)
        ELSE IF c = "&"
             THEN IF StartsWith(f, i, <<"&", "a", "m", "p", ";">>)
                  THEN ScanText(f, i + 5, Append(acc, "&"))
                  ELSE IF StartsWith(f, i, <<"&", "l", "t", ";">>)
                       THEN ScanText(f, i + 4, Append(acc, "<"))
                  ELSE IF StartsWith(f, i, <<"&", "g", "t", ";">>)
                       THEN ScanText(f, i + 4, Append(acc, ">"))
                  ELSE Failed(i)
        ELSE ScanText(f, i + 1, Append(acc, c))

\* whether c can be the name of a tag
IsName(c) == c \notin {"EOF", "<", ">", "/", " ", "&", Newline, Quote}

RECURSIVE ScanElement(_, _)
RECURSIVE ScanChildren(_, _, _)
\* after a child element: its tail, the text up to the next tag, which
\* nothing reads, and the children after it
ChildEnd(f, acc, child, tail) ==
    IF ~child.ok \/ ~tail.ok THEN Failed(tail.pos)
    ELSE ScanChildren(f, tail.pos, Append(acc, child.val))

\* the child elements from position i up to the end tag of their parent
ScanChildren(f, i, acc) ==
    IF At(f, i) = "<" /\ At(f, i + 1) = "/"
    THEN [ok |-> TRUE, pos |-> i, val |-> acc]
    ELSE ChildEnd(f, acc, ScanElement(f, i),
                  ScanText(f, ScanElement(f, i).pos, <<>>))

\* the element with start tag tag, its text and its children, up to its
\* end tag; the text is None when there is no character data
ElementOf(f, i, tag, text, children) ==
    IF ~text.ok \/ ~children.ok THEN Failed(i)
    ELSE IF ~StartsWith(f, children.pos, <<"<", "/", tag, ">">>) THEN Failed(i)
    ELSE [ok |-> TRUE, pos |-> children.pos + 4,
          val |-> [tag |-> tag,
                   text |-> IF Len(text.val) = 0 THEN None ELSE text.val,
                   children |-> children.val]]

\* The element at position i: its tag, its text (None when there is no
\* character data before the first child) and its children.
ScanElement(f, i) ==
    IF At(f, i) # "<" \/ ~IsName(At(f, i + 1)) THEN Failed(i)
    ELSE IF StartsWith(f, i + 2, <<" ", "/", ">">>)
         THEN [ok |-> TRUE, pos |-> i + 5,
               val |-> [tag |-> At(f, i + 1), text |-> None, children |-> <<>>]]
    ELSE IF At(f, i + 2) # ">" THEN Failed(i)
    ELSE ElementOf(f, i, At(f, i + 1), ScanText(f, i + 3, <<>>),
                   ScanChildren(f, ScanText(f, i + 3, <<>>).pos, <<>>))

\* ET.parse of the text f: ok is FALSE where it raises ParseError
XmlDocument(f) ==
    LET root == ScanElement(f, 1)
    IN  IF root.ok /\ root.pos = Len(f) + 1 THEN root ELSE Failed(1)

\* item.find(tag): <<>> for None, else <<the first child with that tag>>
find(item, tag) ==
    LET found == {k \in 1..Len(item.children) : item.children[k].tag = tag}
    IN  IF found = {} THEN <<>>
        ELSE <<item.children[CHOOSE k \in found : \A j \in found : k <= j]>>

\* item.find(tag).text if item.find(tag) is not None else default
TextOr(item, tag, default) ==
    IF find(item, tag) = <<>> THEN default ELSE find(item, tag)[1].text

\* lines 194-202: the records of the benchmark children of the root
XmlRecords(root) ==
    LET items == SelectSeq(root.children, LAMBDA e : e.tag = "benchmark")
    IN  [k \in 1..Len(items) |->
            [system      |-> TextOr(items[k], "system", Unknown),
             model       |-> TextOr(items[k], "model", Unknown),
             single_core |-> TextOr(items[k], "single_core_score", NA),
             multi_core  |-> TextOr(items[k], "multi_core_score", NA),
             url         |-> TextOr(items[k], "url", None)]]

\* json.load(f), or None when it raises
LoadedJson(document) == IF document.ok THEN <<document.val>> ELSE <<>>

\* the list of lines 194-203, or None when ET.parse raises
LoadedXml(document) == IF document.ok THEN <<XmlRecords(document.val)>> ELSE <<>>

\* the extensions of the input files: csv files are not among the inputs
Extensions == {"json", "xml", "txt"}

\* parse_input_file(file_path) for a path with extension ext and the file
\* system disk: <<>> for None (no such file, an extension that is not
\* supported, or an exception while reading), else <<the records>>
parse_input_file(ext, files) ==
    IF files = <<>> THEN <<>>
    ELSE IF ext = "json" THEN LoadedJson(JsonDocument(files[1]))
    ELSE IF ext = "xml" THEN LoadedXml(XmlDocument(files[1]))
    ELSE <<>>

\* Records as parse_page makes them: plain texts; no link and no scores;
\* a quote, a backslash, a newline and a superscript digit; the characters
\* XML escapes and a text that reads as an entity; empty texts.
StoredRecords ==
    {[system |-> <<"S", " ", "1">>, model |-> <<"M">>, single_core |-> <<"1", "2">>,
      multi_core |-> <<"7">>, url |-> <<"h", ":", "/", "v">>],
     [system |-> Unknown, model |-> <<"M">>, single_core |-> NA,
      multi_core |-> NA, url |-> None],
     [system |-> <<"a", Quote, Backslash, "n">>, model |-> <<"x", Newline, "y">>,
      single_core |-> <<SuperscriptTwo>>, multi_core |-> <<"n", "u", "l", "l">>,
      url |-> <<"h", ":", "/", "v">>],
     [system |-> <<"<", "b", ">", "&">>, model |-> <<"&", "l", "t", ";">>,
      single_core |-> <<"1">>, multi_core |-> <<"2">>, url |-> None],
     [system |-> <<"S">>, model |-> <<>>, single_core |-> <<>>,
      multi_core |-> <<"7">>, url |-> None]}

\* The contents of the input files of main: what create_json_output and
\* create_xml_output write for no record and for one record, and the
\* beginnings of such files.
InputContents ==
    LET one == <<CHOOSE r \in StoredRecords : r.system = <<"S", " ", "1">>>>
    IN  {create_json_output(<<>>), create_json_output(one),
         SubSeq(create_json_output(one), 1, 20),
         create_xml_output(<<>>), create_xml_output(one),
         SubSeq(create_xml_output(one), 1, 20)}

(***************************************************************************)
(* State.                                                                  *)
(***************************************************************************)
VARIABLES
    pc,             \* position of the calling thread
    via,            \* how parse_geekbench was entered: "main" or "call";
                    \* "file" when main reads an input file instead
    args_query,     \* whether args.query is a non-empty string
    args_file,      \* args.file: <<>> for None, else <<the extension of the
                    \* path>>
    disk,           \* the file at that path: <<>> when there is none, else
                    \* <<its content>>
    args_threads,   \* args.threads, or the threads argument of a direct call
    args_pages,     \* args.pages, or the max_pages argument of a direct call
    threads,        \* parameter threads of parse_geekbench
    max_pages,      \* parameter max_pages of parse_geekbench
    first_page,     \* what the first page holds (see FirstPages)
    transport,      \* transport[p]: the outcome of requests.get of page p,
                    \* "pending" until parse_page has ended, then "ok"
                    \* (2xx) or "failed"
    discovery,      \* "pending", "ok" or "failed"
    total_pages,    \* local total_pages
    pages_to_fetch, \* local pages_to_fetch
    urls,           \* local urls
    futures,        \* futures[i]: state and result of the i-th future
    work_queue,     \* executor._work_queue: indices of the queued work items
    num_threads,    \* len(executor._threads)
    idle_semaphore, \* executor._idle_semaphore
    worker,         \* worker[w]: index of the work item thread w runs, or 0
    yielded,        \* the futures as_completed has yielded
    all_benchmarks, \* local all_benchmarks
    results,        \* <<>> until parse_geekbench returns, then <<its value>>
    exit_code,      \* exit status of the process, -1 while it runs
    dispatched,     \* history: the page numbers parse_page was started with
    verbose,        \* parameter verbose of parse_geekbench
    stdout_lines,        \* the number of lines written under "if verbose"
    requests_get,   \* requests_get[p]: the number of calls of requests.get
                    \* with the URL of page p that have ended
    callee,         \* the function applied on its own, "none" in a run
    arg,            \* its argument
    ret             \* its value

runVars == <<pc, via, args_query, args_file, disk,
                   args_threads, args_pages, threads, max_pages, first_page,
             transport, discovery, total_pages, pages_to_fetch, urls, futures,
             work_queue, num_threads, idle_semaphore, worker, yielded,
             all_benchmarks, results, exit_code, dispatched, verbose, stdout_lines,
             requests_get>>

fnVars == <<callee, arg, ret>>

vars == <<runVars, fnVars>>

\* the optional page caps: None, or an integer
Caps == {<<>>} \cup {<<n>> : n \in -1..MaxCap}

ThreadCounts == -1..MaxThreads

\* The command line and the world: a query with any thread count, page cap
\* and first page, or an input file (or nothing at all) with the defaults.
Init ==
    /\ pc = "idle"
    /\ via = "none"
    /\ \/ /\ args_query = TRUE
          /\ args_file = <<>>
          /\ disk = <<>>
          /\ args_threads \in ThreadCounts
          /\ args_pages \in Caps
          /\ first_page \in FirstPages
       \/ /\ args_query \in BOOLEAN
          /\ args_file \in {<<>>} \cup {<<e>> : e \in Extensions}
          /\ disk \in {<<>>} \cup {<<c>> : c \in InputContents}
          /\ args_file = <<>> => disk = <<>>
          /\ args_threads = 1
          /\ args_pages = <<>>
          /\ first_page = <<>>
    /\ threads = 0
    /\ max_pages = <<>>
    /\ transport = [p \in 1..MaxPage |-> "pending"]
    /\ discovery = "pending"
    /\ total_pages = 0
    /\ pages_to_fetch = 0
    /\ urls = <<>>
    /\ futures = <<>>
    /\ work_queue = <<>>
    /\ num_threads = 0
    /\ idle_semaphore = 0
    /\ worker = [w \in 1..MaxThreads |-> 0]
    /\ yielded = {}
    /\ all_benchmarks = <<>>
    /\ results = <<>>
    /\ exit_code = -1
    /\ dispatched = <<>>
    /\ verbose = FALSE
    /\ stdout_lines = 0
    /\ requests_get = [p \in 1..MaxPage |-> 0]
    /\ callee = "none"
    /\ arg = <<>>
    /\ ret = <<>>

(***************************************************************************)
(* main, up to the call of parse_geekbench, and a direct call.             *)
(***************************************************************************)
\* ClampThreads without the check.
ClampThreads_none(t) == t

\* args.threads after the check of main
ClampThreads(t) == IF t < 1 THEN 1 ELSE t

\* main with a query and no input file: clamps args.threads and calls
\* parse_geekbench(args.query, max_pages=args.pages, threads=args.threads)
Main ==
    /\ pc = "idle"
    /\ args_query
    /\ args_file = <<>>
    /\ via' = "main"
    /\ threads' = ClampThreads(args_threads)
    /\ max_pages' = args_pages
    /\ verbose' = TRUE
    /\ pc' = "discover"
    /\ UNCHANGED <<args_query, args_file, disk,
                   args_threads, args_pages, first_page, transport, discovery,
                   total_pages, pages_to_fetch, urls, futures, work_queue,
                   num_threads, idle_semaphore, worker, yielded,
                   all_benchmarks, results, exit_code, dispatched, stdout_lines,
                   requests_get, fnVars>>

\* MainUsage with the exit status of sys.exit(1).
MainUsage_status1 ==
    /\ pc = "idle"
    /\ ~args_query
    /\ args_file = <<>>
    /\ via' = "main"
    /\ exit_code' = 1
    /\ pc' = "exit"
    /\ UNCHANGED <<args_query, args_file, disk,
                   args_threads, args_pages, threads, max_pages, first_page,
                   transport, discovery, total_pages, pages_to_fetch, urls,
                   futures, work_queue, num_threads, idle_semaphore, worker,
                   yielded, all_benchmarks, results, dispatched, verbose,
                   stdout_lines, requests_get, fnVars>>

\* main without a query and without an input file, lines 230-231:
\* parser.error prints the usage and ends the process with status 2.
MainUsage ==
    /\ pc = "idle"
    /\ ~args_query
    /\ args_file = <<>>
    /\ via' = "main"
    /\ exit_code' = 2
    /\ pc' = "exit"
    /\ UNCHANGED <<args_query, args_file, disk,
                   args_threads, args_pages, threads, max_pages, first_page,
                   transport, discovery, total_pages, pages_to_fetch, urls,
                   futures, work_queue, num_threads, idle_semaphore, worker,
                   yielded, all_benchmarks, results, dispatched, verbose,
                   stdout_lines, requests_get, fnVars>>

\* main with an input file, lines 240-244: results is the value of
\* parse_input_file, and the process ends with status 1 when it is None.
MainFile ==
    /\ pc = "idle"
    /\ args_file # <<>>
    /\ via' = "file"
    /\ verbose' = TRUE
    /\ LET loaded == parse_input_file(args_file[1], disk)
       IN  IF loaded = <<>>
           THEN /\ exit_code' = 1
                /\ pc' = "exit"
                /\ UNCHANGED results
           ELSE /\ results' = loaded
                /\ pc' = "returned"
                /\ UNCHANGED exit_code
    /\ UNCHANGED <<args_query, args_file, disk,
                   args_threads, args_pages, threads, max_pages, first_page,
                   transport, discovery, total_pages, pages_to_fetch, urls,
                   futures, work_queue, num_threads, idle_semaphore, worker,
                   yielded, all_benchmarks, dispatched, stdout_lines, requests_get,
                   fnVars>>

\* parse_geekbench called by an importing program, with its arguments as
\* given and verbose on or off
Call ==
    /\ pc = "idle"
    /\ args_query
    /\ args_file = <<>>
    /\ via' = "call"
    /\ threads' = args_threads
    /\ max_pages' = args_pages
    /\ verbose' \in BOOLEAN
    /\ pc' = "discover"
    /\ UNCHANGED <<args_query, args_file, disk,
                   args_threads, args_pages, first_page, transport, discovery,
                   total_pages, pages_to_fetch, urls, futures, work_queue,
                   num_threads, idle_semaphore, worker, yielded,
                   all_benchmarks, results, exit_code, dispatched, stdout_lines,
                   requests_get, fnVars>>

(***************************************************************************)
(* parse_geekbench                                                         *)
(***************************************************************************)
\* "if verbose: print(...)", n times: the lines written so far
Notify(n) == IF verbose THEN stdout_lines + n ELSE stdout_lines

\* Discover with a failure that falls back to a single page instead of
\* returning.
Discover_fallback ==
    /\ pc = "discover"
    /\ requests_get' = [requests_get EXCEPT ![1] = @ + 1]
    /\ \E ok \in BOOLEAN :
        IF ok /\ ~ScanRaises(first_page)
        THEN /\ discovery' = "ok"
             /\ total_pages' = TotalPages(first_page)
             /\ pages_to_fetch' = PagesToFetch(TotalPages(first_page), max_pages)
             /\ urls' = Urls(PagesToFetch(TotalPages(first_page), max_pages))
             /\ stdout_lines' = Notify(4)
        ELSE /\ discovery' = "failed"
             /\ total_pages' = 1
             /\ pages_to_fetch' = 1
             /\ urls' = <<1>>
             /\ stdout_lines' = Notify(3)
    /\ pc' = "executor"
    /\ UNCHANGED <<via, args_query, args_file, disk,
                   args_threads, args_pages, threads, max_pages,
                   first_page, transport, futures, work_queue, num_threads,
                   idle_semaphore, worker, yielded, all_benchmarks, results,
                   exit_code, dispatched, verbose, fnVars>>

\* Lines 66-92: the two lines of the start, the fetch of the first page
\* with requests.get(search_url), the pagination scan, two more lines and
\* the list of URLs.  A failed fetch or a raising scan goes to the except
\* clause, which writes one line and returns [].
Discover ==
    /\ pc = "discover"
    /\ requests_get' = [requests_get EXCEPT ![1] = @ + 1]
    /\ \E ok \in BOOLEAN :
        IF ok /\ ~ScanRaises(first_page)
        THEN /\ discovery' = "ok"
             /\ total_pages' = TotalPages(first_page)
             /\ pages_to_fetch' = PagesToFetch(TotalPages(first_page), max_pages)
             /\ urls' = Urls(PagesToFetch(TotalPages(first_page), max_pages))
             /\ stdout_lines' = Notify(4)
             /\ pc' = "executor"
             /\ UNCHANGED results
        ELSE /\ discovery' = "failed"
             /\ results' = <<<<>>>>
             /\ stdout_lines' = Notify(3)
             /\ pc' = "returned"
             /\ UNCHANGED <<total_pages, pages_to_fetch, urls>>
    /\ UNCHANGED <<via, args_query, args_file, disk,
                   args_threads, args_pages, threads, max_pages,
                   first_page, transport, futures, work_queue, num_threads,
                   idle_semaphore, worker, yielded, all_benchmarks, exit_code,
                   dispatched, verbose, fnVars>>

\* Line 94: ThreadPoolExecutor(max_workers=threads) raises ValueError for
\* max_workers <= 0; the except clause returns [].
CreateExecutor ==
    /\ pc = "executor"
    /\ IF threads <= 0
       THEN /\ results' = <<<<>>>>
            /\ stdout_lines' = Notify(1)
            /\ pc' = "returned"
       ELSE /\ pc' = "submit"
            /\ UNCHANGED <<results, stdout_lines>>
    /\ UNCHANGED <<via, args_query, args_file, disk,
                   args_threads, args_pages, threads, max_pages,
                   first_page, transport, discovery, total_pages,
                   pages_to_fetch, urls, futures, work_queue, num_threads,
                   idle_semaphore, worker, yielded, all_benchmarks, exit_code,
                   dispatched, verbose, requests_get, fnVars>>

\* Submit that starts a thread whenever none is idle, whatever max_workers.
Submit_unbounded ==
    /\ pc = "submit"
    /\ LET i == Len(futures) + 1
       IN  /\ futures' = Append(futures, [state |-> "pending", exception |-> FALSE,
                                       result |-> <<>>])
           /\ work_queue' = Append(work_queue, i)
           /\ IF idle_semaphore > 0
              THEN /\ idle_semaphore' = idle_semaphore - 1
                   /\ UNCHANGED num_threads
              ELSE /\ num_threads' = num_threads + 1
                   /\ UNCHANGED idle_semaphore
           /\ pc' = IF i = Len(urls) THEN "collect" ELSE "submit"
    /\ UNCHANGED <<via, args_query, args_file, disk,
                   args_threads, args_pages, threads, max_pages,
                   first_page, transport, discovery, total_pages,
                   pages_to_fetch, urls, worker, yielded, all_benchmarks,
                   results, exit_code, dispatched, verbose, stdout_lines,
                   requests_get, fnVars>>

\* Submit that stops starting threads one short of max_workers.
Submit_nothread ==
    /\ pc = "submit"
    /\ LET i == Len(futures) + 1
       IN  /\ futures' = Append(futures, [state |-> "pending", exception |-> FALSE,
                                       result |-> <<>>])
           /\ work_queue' = Append(work_queue, i)
           /\ IF idle_semaphore > 0
              THEN /\ idle_semaphore' = idle_semaphore - 1
                   /\ UNCHANGED num_threads
              ELSE /\ num_threads' =
                        IF num_threads < threads - 1 THEN num_threads + 1
                        ELSE num_threads
                   /\ UNCHANGED idle_semaphore
           /\ pc' = IF i = Len(urls) THEN "collect" ELSE "submit"
    /\ UNCHANGED <<via, args_query, args_file, disk,
                   args_threads, args_pages, threads, max_pages,
                   first_page, transport, discovery, total_pages,
                   pages_to_fetch, urls, worker, yielded, all_benchmarks,
                   results, exit_code, dispatched, verbose, stdout_lines,
                   requests_get, fnVars>>

\* Lines 96-97: executor.submit(parse_page, url, i, verbose) for the next
\* URL: a pending future, its work item queued, and a thread started when
\* no thread is idle and fewer than max_workers threads exist.
Submit ==
    /\ pc = "submit"
    /\ LET i == Len(futures) + 1
       IN  /\ futures' = Append(futures, [state |-> "pending", exception |-> FALSE,
                                       result |-> <<>>])
           /\ work_queue' = Append(work_queue, i)
           /\ IF idle_semaphore > 0
              THEN /\ idle_semaphore' = idle_semaphore - 1
                   /\ UNCHANGED num_threads
              ELSE /\ num_threads' =
                        IF num_threads < threads THEN num_threads + 1
                        ELSE num_threads
                   /\ UNCHANGED idle_semaphore
           /\ pc' = IF i = Len(urls) THEN "collect" ELSE "submit"
    /\ UNCHANGED <<via, args_query, args_file, disk,
                   args_threads, args_pages, threads, max_pages,
                   first_page, transport, discovery, total_pages,
                   pages_to_fetch, urls, worker, yielded, all_benchmarks,
                   results, exit_code, dispatched, verbose, stdout_lines,
                   requests_get, fnVars>>

\* A thread of the pool takes the next work item off the queue and starts
\* parse_page(url, i, verbose) with it.
WorkerTake(w) ==
    /\ w <= num_threads
    /\ worker[w] = 0
    /\ Len(work_queue) > 0
    /\ worker' = [worker EXCEPT ![w] = Head(work_queue)]
    /\ work_queue' = Tail(work_queue)
    /\ futures' = [futures EXCEPT ![Head(work_queue)].state = "running"]
    /\ dispatched' = Append(dispatched, urls[Head(work_queue)])
    /\ stdout_lines' = Notify(1)
    /\ UNCHANGED <<pc, via, args_query, args_file, disk,
                   args_threads, args_pages, threads, max_pages,
                   first_page, transport, discovery, total_pages,
                   pages_to_fetch, urls, num_threads, idle_semaphore, yielded,
                   all_benchmarks, results, exit_code, verbose, requests_get,
                   fnVars>>

\* Response with the response of the discovery fetch standing in for the
\* fetch of page 1.
Response_reuse(p, ok) == [ok |-> ok \/ p = 1, containers |-> SiteMarkup(p)]

\* the response of the site to the fetch of page p, with outcome ok
Response(p, ok) == [ok |-> ok, containers |-> SiteMarkup(p)]

\* the number of lines parse_page writes after the first one: one for each
\* container whose extraction raises and one for the count of the records
\* found, or one for the error of the fetch
parse_page_lines(response) ==
    IF response.ok
    THEN Cardinality({k \in 1..Len(response.containers) :
                          ExtractRaises(response.containers[k])}) + 1
    ELSE 1

\* WorkerFinish with a page whose fetch failed put back on the queue.
WorkerFinish_retry(w) ==
    /\ worker[w] # 0
    /\ requests_get' = [requests_get EXCEPT ![urls[worker[w]]] = @ + 1]
    /\ \E ok \in BOOLEAN :
          /\ transport' = [transport EXCEPT ![urls[worker[w]]] =
                               IF ok THEN "ok" ELSE "failed"]
          /\ stdout_lines' = Notify(parse_page_lines(Response(urls[worker[w]], ok)))
          /\ IF ok
             THEN /\ futures' = [futures EXCEPT ![worker[w]] =
                         [state |-> "finished", exception |-> FALSE,
                          result |-> parse_page(Response(urls[worker[w]], ok))]]
                  /\ UNCHANGED work_queue
             ELSE /\ futures' = [futures EXCEPT ![worker[w]].state = "pending"]
                  /\ work_queue' = Append(work_queue, worker[w])
    /\ worker' = [worker EXCEPT ![w] = 0]
    /\ idle_semaphore' = idle_semaphore + 1
    /\ UNCHANGED <<pc, via, args_query, args_file, disk,
                   args_threads, args_pages, threads, max_pages,
                   first_page, discovery, total_pages, pages_to_fetch, urls,
                   num_threads, yielded, all_benchmarks, results,
                   exit_code, dispatched, verbose, fnVars>>

\* WorkerFinish with the return of parse_page inside its last "if verbose":
\* without verbose the result of the future is None, which extend rejects.
WorkerFinish_quiet(w) ==
    /\ worker[w] # 0
    /\ requests_get' = [requests_get EXCEPT ![urls[worker[w]]] = @ + 1]
    /\ \E ok \in BOOLEAN :
          /\ transport' = [transport EXCEPT ![urls[worker[w]]] =
                               IF ok THEN "ok" ELSE "failed"]
          /\ stdout_lines' = Notify(parse_page_lines(Response(urls[worker[w]], ok)))
          /\ futures' = [futures EXCEPT ![worker[w]] =
                 IF ok /\ ~verbose
                 THEN [state |-> "finished", exception |-> TRUE,
                       result |-> <<>>]
                 ELSE [state |-> "finished", exception |-> FALSE,
                       result |-> parse_page(Response(urls[worker[w]], ok))]]
    /\ worker' = [worker EXCEPT ![w] = 0]
    /\ idle_semaphore' = idle_semaphore + 1
    /\ UNCHANGED <<pc, via, args_query, args_file, disk,
                   args_threads, args_pages, threads, max_pages,
                   first_page, discovery, total_pages, pages_to_fetch, urls,
                   work_queue, num_threads, yielded, all_benchmarks, results,
                   exit_code, dispatched, verbose, fnVars>>

\* parse_page ends: requests.get has returned a response or raised, the
\* lines of parse_page are written, the future gets its result, or the
\* exception parse_page raised, and the thread is idle.
WorkerFinish(w) ==
    /\ worker[w] # 0
    /\ requests_get' = [requests_get EXCEPT ![urls[worker[w]]] = @ + 1]
    /\ \E ok \in BOOLEAN :
          /\ transport' = [transport EXCEPT ![urls[worker[w]]] =
                               IF ok THEN "ok" ELSE "failed"]
          /\ stdout_lines' = Notify(parse_page_lines(Response(urls[worker[w]], ok)))
          /\ futures' = [futures EXCEPT ![worker[w]] =
                 IF parse_page_raises(Response(urls[worker[w]], ok))
                 THEN [state |-> "finished", exception |-> TRUE,
                       result |-> <<>>]
                 ELSE [state |-> "finished", exception |-> FALSE,
                       result |-> parse_page(Response(urls[worker[w]], ok))]]
    /\ worker' = [worker EXCEPT ![w] = 0]
    /\ idle_semaphore' = idle_semaphore + 1
    /\ UNCHANGED <<pc, via, args_query, args_file, disk,
                   args_threads, args_pages, threads, max_pages,
                   first_page, discovery, total_pages, pages_to_fetch, urls,
                   work_queue, num_threads, yielded, all_benchmarks, results,
                   exit_code, dispatched, verbose, fnVars>>

\* Collect with an assignment in place of extend.
Collect_overwrite(i) ==
    /\ pc = "collect"
    /\ i \in 1..Len(futures)
    /\ i \notin yielded
    /\ futures[i].state = "finished"
    /\ yielded' = yielded \cup {i}
    /\ all_benchmarks' = futures[i].result
    /\ UNCHANGED <<pc, results, via, args_query, args_file, disk,
                   args_threads, args_pages, threads,
                   max_pages, first_page, transport, discovery, total_pages,
                   pages_to_fetch, urls, futures, work_queue, num_threads,
                   idle_semaphore, worker, dispatched, exit_code, verbose,
                   stdout_lines, requests_get, fnVars>>

\* Lines 99-100: as_completed yields a finished future it has not yielded
\* yet, and its result is appended to all_benchmarks.  future.result()
\* raises the exception of the future, if any: the except clause of line
\* 106 then returns [].
Collect(i) ==
    /\ pc = "collect"
    /\ i \in 1..Len(futures)
    /\ i \notin yielded
    /\ futures[i].state = "finished"
    /\ yielded' = yielded \cup {i}
    /\ IF futures[i].exception
       THEN /\ results' = <<<<>>>>
            /\ stdout_lines' = Notify(1)
            /\ pc' = "returned"
            /\ UNCHANGED all_benchmarks
       ELSE /\ all_benchmarks' = all_benchmarks \o futures[i].result
            /\ UNCHANGED <<pc, results, stdout_lines>>
    /\ UNCHANGED <<via, args_query, args_file, disk,
                   args_threads, args_pages, threads, max_pages,
                   first_page, transport, discovery, total_pages,
                   pages_to_fetch, urls, futures, work_queue, num_threads,
                   idle_semaphore, worker, dispatched, exit_code, verbose,
                   requests_get, fnVars>>

\* Return as soon as one future has been merged.
Return_early ==
    /\ pc = "collect"
    /\ yielded # {}
    /\ results' = <<all_benchmarks>>
    /\ stdout_lines' = Notify(1)
    /\ pc' = "returned"
    /\ UNCHANGED <<via, args_query, args_file, disk,
                   args_threads, args_pages, threads, max_pages,
                   first_page, transport, discovery, total_pages,
                   pages_to_fetch, urls, futures, work_queue, num_threads,
                   idle_semaphore, worker, yielded, all_benchmarks, exit_code,
                   dispatched, verbose, requests_get, fnVars>>

\* Lines 100-105: as_completed is exhausted, the with block shuts the
\* executor down, one line is written and parse_geekbench returns
\* all_benchmarks.
Return ==
    /\ pc = "collect"
    /\ yielded = 1..Len(futures)
    /\ results' = <<all_benchmarks>>
    /\ stdout_lines' = Notify(1)
    /\ pc' = "returned"
    /\ UNCHANGED <<via, args_query, args_file, disk,
                   args_threads, args_pages, threads, max_pages,
                   first_page, transport, discovery, total_pages,
                   pages_to_fetch, urls, futures, work_queue, num_threads,
                   idle_semaphore, worker, yielded, all_benchmarks, exit_code,
                   dispatched, verbose, requests_get, fnVars>>

\* main, lines 252-254: exit status 1 when results is empty.  Otherwise
\* main goes on to write the output files, which is not modelled: the
\* status 0 stands for it.
MainExit ==
    /\ pc = "returned"
    /\ via \in {"main", "file"}
    /\ exit_code' = IF Len(results[1]) = 0 THEN 1 ELSE 0
    /\ pc' = "exit"
    /\ UNCHANGED <<via, args_query, args_file, disk,
                   args_threads, args_pages, threads, max_pages,
                   first_page, transport, discovery, total_pages,
                   pages_to_fetch, urls, futures, work_queue, num_threads,
                   idle_semaphore, worker, yielded, all_benchmarks, results,
                   dispatched, verbose, stdout_lines, requests_get, fnVars>>

Next ==
    \/ Main
    \/ MainUsage
    \/ MainFile
    \/ Call
    \/ Discover
    \/ CreateExecutor
    \/ Submit
    \/ \E w \in 1..MaxThreads : WorkerTake(w)
    \/ \E w \in 1..MaxThreads : WorkerFinish(w)
    \/ \E i \in 1..MaxPage : Collect(i)
    \/ Return
    \/ MainExit

Spec == Init /\ [][Next]_vars

(***************************************************************************)
(* parse_page and calculate_statistics applied on their own, to inputs     *)
(* drawn from bounded sets.  No run takes place: the variables of the run  *)
(* keep the values of RunOff.                                              *)
(***************************************************************************)
RunOff ==
    /\ via = "none"
    /\ args_threads = 1
    /\ args_pages = <<>>
    /\ threads = 0
    /\ max_pages = <<>>
    /\ first_page = <<>>
    /\ transport = [p \in 1..MaxPage |-> "pending"]
    /\ discovery = "pending"
    /\ total_pages = 0
    /\ pages_to_fetch = 0
    /\ urls = <<>>
    /\ futures = <<>>
    /\ work_queue = <<>>
    /\ num_threads = 0
    /\ idle_semaphore = 0
    /\ worker = [w \in 1..MaxThreads |-> 0]
    /\ yielded = {}
    /\ all_benchmarks = <<>>
    /\ results = <<>>
    /\ exit_code = -1
    /\ dispatched = <<>>
    /\ verbose = FALSE
    /\ stdout_lines = 0
    /\ requests_get = [p \in 1..MaxPage |-> 0]
    /\ args_query = FALSE

\* The lists of the texts of the score spans of a container: no span, one
\* span (digits inside whitespace, or whitespace only), two spans (a word
\* and digits, either way round), and three spans.
ScoreLists ==
    {<<>>, <<<<" ", "1", "2">>>>, <<<<" ">>>>,
     <<<<"n", "/", "a", " ">>, <<"7">>>>, <<<<"1", "2", " ">>, <<"n", "/", "a">>>>,
     <<<<"3">>, <<" ", "4">>, <<"5">>>>}

\* the containers of the pages given to parse_page: with or without link,
\* the link with or without href, with or without model span, and the
\* score spans of ScoreLists
Containers ==
    [links  : {<<>>,
               <<[hasHref |-> TRUE, href |-> <<"/", "c">>, text |-> <<" ", "S">>]>>,
               <<[hasHref |-> FALSE, href |-> <<>>, text |-> <<"S">>]>>},
     models : {<<>>, <<<<<<" ", "M">>, <<" ">>, <<"x", " ">>>>>>},
     scores : ScoreLists]

InitPage ==
    /\ pc = "apply"
    /\ callee = "parse_page"
    /\ arg \in [ok : BOOLEAN, containers : SeqsUpTo(Containers, MaxContainers)]
    /\ ret = <<>>
    /\ args_file = <<>>
    /\ disk = <<>>
    /\ RunOff

\* page_results = parse_page(url, page_num) for the response arg
ApplyParsePage ==
    /\ pc = "apply"
    /\ callee = "parse_page"
    /\ ~parse_page_raises(arg)
    /\ ret' = parse_page(arg)
    /\ pc' = "applied"
    /\ UNCHANGED <<via, args_query, args_file, disk,
                   args_threads, args_pages, threads, max_pages,
                   first_page, transport, discovery, total_pages,
                   pages_to_fetch, urls, futures, work_queue, num_threads,
                   idle_semaphore, worker, yielded, all_benchmarks, results,
                   exit_code, dispatched, verbose, stdout_lines, requests_get,
                   callee, arg>>

SpecPage == InitPage /\ [][ApplyParsePage]_vars

\* texts of the score fields of the records given to calculate_statistics
StatTexts ==
    {<<"1", "2">>, <<"7">>, NA, <<>>, <<SuperscriptTwo>>}

StatRecords ==
    [system : {<<"S">>}, model : {<<"M">>}, single_core : StatTexts,
     multi_core : StatTexts, url : {None}]

InitStats ==
    /\ pc = "apply"
    /\ callee = "calculate_statistics"
    /\ arg \in SeqsUpTo(StatRecords, MaxRecords)
    /\ ret = [kind |-> "none"]
    /\ args_file = <<>>
    /\ disk = <<>>
    /\ RunOff

\* stats = calculate_statistics(results) for the collection arg
ApplyStatistics ==
    /\ pc = "apply"
    /\ callee = "calculate_statistics"
    /\ ret' = calculate_statistics(arg)
    /\ pc' = "applied"
    /\ UNCHANGED <<via, args_query, args_file, disk,
                   args_threads, args_pages, threads, max_pages,
                   first_page, transport, discovery, total_pages,
                   pages_to_fetch, urls, futures, work_queue, num_threads,
                   idle_semaphore, worker, yielded, all_benchmarks, results,
                   exit_code, dispatched, verbose, stdout_lines, requests_get,
                   callee, arg>>

SpecStats == InitStats /\ [][ApplyStatistics]_vars

\* Records whose order can matter to calculate_statistics: three with
\* different numeric scores, one without a score, one with an empty score
\* and one whose score is a superscript digit.
OrderRecords ==
    {[system |-> <<"S">>, model |-> <<"M">>, single_core |-> sc[1],
      multi_core |-> sc[2], url |-> None] :
        sc \in {<<<<"1", "2">>, <<"7">>>>, <<<<"7">>, <<"1", "2">>>>,
                <<<<"3">>, <<"3">>>>, <<NA, <<"7">>>>, <<<<"1", "2">>, <<>>>>,
                <<<<SuperscriptTwo>>, <<"7">>>>}}

InitOrder ==
    /\ pc = "apply"
    /\ callee = "calculate_statistics"
    /\ arg \in SeqsUpTo(OrderRecords, MaxRecords)
    /\ ret = [kind |-> "none"]
    /\ args_file = <<>>
    /\ disk = <<>>
    /\ RunOff

SpecOrder == InitOrder /\ [][ApplyStatistics]_vars

\* A collection is written to a file and the file is read back.
InitStore ==
    /\ pc = "apply"
    /\ callee \in {"create_json_output", "create_xml_output"}
    /\ arg \in SeqsUpTo(StoredRecords, MaxRecords)
    /\ ret = <<>>
    /\ args_file = <<IF callee = "create_json_output" THEN "json" ELSE "xml">>
    /\ disk = <<>>
    /\ RunOff

\* create_json_output(arg, output_file)
CreateJsonOutput ==
    /\ pc = "apply"
    /\ callee = "create_json_output"
    /\ disk' = <<create_json_output(arg)>>
    /\ pc' = "written"
    /\ UNCHANGED <<via, args_query, args_threads, args_pages, threads,
                   max_pages, first_page, transport, discovery, total_pages,
                   pages_to_fetch, urls, futures, work_queue, num_threads,
                   idle_semaphore, worker, yielded, all_benchmarks, results,
                   exit_code, dispatched, verbose, stdout_lines, requests_get,
                   callee, arg, ret, args_file>>

\* create_xml_output(arg, output_file)
CreateXmlOutput ==
    /\ pc = "apply"
    /\ callee = "create_xml_output"
    /\ disk' = <<create_xml_output(arg)>>
    /\ pc' = "written"
    /\ UNCHANGED <<via, args_query, args_threads, args_pages, threads,
                   max_pages, first_page, transport, discovery, total_pages,
                   pages_to_fetch, urls, futures, work_queue, num_threads,
                   idle_semaphore, worker, yielded, all_benchmarks, results,
                   exit_code, dispatched, verbose, stdout_lines, requests_get,
                   callee, arg, ret, args_file>>

\* ret = parse_input_file(output_file)
ParseInputFile ==
    /\ pc = "written"
    /\ ret' = parse_input_file(args_file[1], disk)
    /\ pc' = "applied"
    /\ UNCHANGED <<via, args_query, args_threads, args_pages, threads,
                   max_pages, first_page, transport, discovery, total_pages,
                   pages_to_fetch, urls, futures, work_queue, num_threads,
                   idle_semaphore, worker, yielded, all_benchmarks, results,
                   exit_code, dispatched, verbose, stdout_lines, requests_get,
                   callee, arg, args_file, disk>>

SpecStore ==
    InitStore /\ [][CreateJsonOutput \/ CreateXmlOutput \/ ParseInputFile]_vars

(***************************************************************************)
(* Properties.                                                             *)
(***************************************************************************)
Range(q) == {q[i] : i \in DOMAIN q}

\* the number of occurrences of x in the sequence q
Count(x, q) == Cardinality({i \in DOMAIN q : q[i] = x})

\* the sequence q as a multiset
BagOfSeq(q) == [x \in Range(q) |-> Count(x, q)]

Returned == pc \in {"returned", "exit"}

RECURSIVE SequentialRecords(_)
\* the records of pages 1..n, fetched with the outcomes of transport and
\* parsed one after the other
SequentialRecords(n) ==
    IF n = 0 THEN <<>>
    ELSE SequentialRecords(n - 1) \o parse_page(Response(n, transport[n] = "ok"))

\* C1: for fixed page contents and fetch outcomes, the collection returned
\* with any pool size >= 1 and under any interleaving is, as a multiset,
\* the collection of the pages fetched one after the other; it does not
\* depend on the pool size.
C1_PoolSizeIndependent ==
    (Returned /\ discovery = "ok" /\ threads >= 1)
        => BagOfSeq(results[1]) = BagOfSeq(SequentialRecords(Len(urls)))

\* two threads ran, and the merge order differs from the page order
C1_Witness ==
    /\ pc = "returned"
    /\ discovery = "ok"
    /\ threads = 2
    /\ num_threads = 2
    /\ Len(urls) >= 2
    /\ Len(results[1]) > 0
    /\ results[1] # SequentialRecords(Len(urls))

\* C2: parse_page never hands an exception to the coordinator; a page whose
\* fetch fails contributes no record, the run is not aborted, and the
\* records of every page fetched successfully are in the returned
\* collection.
C2_PageFailureIsolated ==
    /\ \A i \in 1..Len(futures) : ~futures[i].exception
    /\ (Returned /\ Len(futures) > 0) =>
          /\ yielded = 1..Len(urls)
          /\ results[1] = all_benchmarks
          /\ \A i \in 1..Len(urls) :
                IF transport[urls[i]] = "ok"
                THEN \A r \in Range(ExtractAll(SiteMarkup(urls[i]))) :
                         Count(r, results[1])
                             >= Count(r, ExtractAll(SiteMarkup(urls[i])))
                ELSE futures[i].result = <<>>

\* one page failed, another one succeeded, and its records were returned
C2_Witness ==
    /\ pc = "returned"
    /\ Len(urls) >= 2
    /\ \E i, j \in 1..Len(urls) :
          transport[urls[i]] = "failed" /\ transport[urls[j]] = "ok"
    /\ Len(results[1]) > 0

\* the indices of the containers whose extraction does not raise
WellFormed(containers) ==
    {i \in 1..Len(containers) : ~ExtractRaises(containers[i])}

\* the position, in the result of the page, of the record of container i
Position(containers, i) ==
    Cardinality({j \in WellFormed(containers) : j <= i})

\* C3: parse_page returns exactly one record per well-formed container, in
\* the order of the containers, and none for a container whose extraction
\* raises.
C3_ContainerIsolation ==
    (pc = "applied" /\ callee = "parse_page" /\ arg.ok) =>
        /\ Len(ret) = Cardinality(WellFormed(arg.containers))
        /\ \A i \in WellFormed(arg.containers) :
               ret[Position(arg.containers, i)] = ExtractRecord(arg.containers[i])

\* a malformed container followed by a well-formed one: exactly one record
C3_Witness ==
    /\ pc = "applied"
    /\ callee = "parse_page"
    /\ arg.ok
    /\ Len(arg.containers) = 2
    /\ WellFormed(arg.containers) = {2}
    /\ Len(ret) = 1

\* C4: when discovery fails, the coordinator returns the empty collection
\* and no parse_page invocation is submitted or started.
C4_DiscoveryFailure ==
    discovery = "failed" =>
        /\ Returned
        /\ results = <<<<>>>>
        /\ Len(futures) = 0
        /\ num_threads = 0
        /\ dispatched = <<>>

\* the pagination scan raised and the run ended
C4_Witness ==
    /\ discovery = "failed"
    /\ ScanRaises(first_page)
    /\ pc = "returned"

\* The discovered total in the words of the specification: the largest
\* positive integer among the texts of the pagination links, 1 without one.
PositiveLinkNumbers(paginations) ==
    IF Len(paginations) = 0 THEN {}
    ELSE {int(paginations[1][i]) : i \in
              {j \in 1..Len(paginations[1]) :
                   /\ ~int_raises(paginations[1][j])
                   /\ int(paginations[1][j]) >= 1}}

DiscoveredTotal(paginations) ==
    IF PositiveLinkNumbers(paginations) = {} THEN 1
    ELSE CHOOSE m \in PositiveLinkNumbers(paginations) :
             \A n \in PositiveLinkNumbers(paginations) : n <= m

\* the effective page count for a cap that is None or at least 1
EffectiveCount ==
    IF max_pages = <<>> THEN DiscoveredTotal(first_page)
    ELSE Min(DiscoveredTotal(first_page), max_pages[1])

\* C5: with a cap >= 1 the pages given to parse_page are exactly
\* 1..min(discovered total, cap), with no cap exactly 1..discovered total,
\* and no page above that count is ever fetched.
C5_PagesDispatched ==
    (discovery = "ok" /\ threads >= 1 /\ (max_pages = <<>> \/ max_pages[1] >= 1))
        => /\ Range(dispatched) \subseteq 1..EffectiveCount
           /\ Returned => Range(dispatched) = 1..EffectiveCount

\* links 1, 2, 3 (largest 3) and cap 2: pages 1 and 2 fetched, not page 3
C5_Witness ==
    /\ pc = "returned"
    /\ discovery = "ok"
    /\ threads >= 1
    /\ max_pages = <<2>>
    /\ total_pages = 3
    /\ Range(dispatched) = {1, 2}

\* a cap was supplied and is below 1
CapBelowOne == max_pages # <<>> /\ max_pages[1] < 1

C7_CoordinatorClamps ==
    (Returned /\ discovery = "ok" /\ args_threads < 1)
        => /\ num_threads = 1
           /\ BagOfSeq(results[1]) = BagOfSeq(SequentialRecords(Len(urls)))

\* C7, amended: main clamps a thread count below 1 to 1 before it calls
\* the coordinator, which then runs the fetches on a pool of one thread
\* and returns what it returns with threads = 1; parse_geekbench itself,
\* called with threads < 1, starts no parse_page and returns the empty
\* collection.
C7_MainClamps ==
    /\ (via = "main" /\ args_threads < 1) =>
          /\ threads = 1
          /\ num_threads <= 1
          /\ (Returned /\ discovery = "ok") =>
                /\ num_threads = 1
                /\ BagOfSeq(results[1])
                       = BagOfSeq(SequentialRecords(Len(urls)))
    /\ (via = "call" /\ args_threads < 1 /\ Returned) =>
          /\ results = <<<<>>>>
          /\ dispatched = <<>>

\* main was given a thread count below 1 and the run returned the records
\* of several pages
C7_Witness ==
    /\ via = "main"
    /\ args_threads < 1
    /\ pc = "exit"
    /\ exit_code = 0
    /\ Len(dispatched) >= 2
    /\ Len(results[1]) > 0

\* C8 as stated: the discovered total is the largest positive integer among
\* the pagination link texts, 1 when there is none, and so at least 1.
C8_TotalAtLeastOne ==
    discovery = "ok" =>
        /\ total_pages = DiscoveredTotal(first_page)
        /\ total_pages >= 1

\* a non-empty run of ASCII digits
AllAsciiDigits(t) == Len(t) > 0 /\ \A i \in 1..Len(t) : IsDecimalChar(t[i])

\* C9 as stated: the score fields of every record are all-ASCII-digit
\* texts or exactly "N/A".
C9_ScoresDigitsOrNA ==
    (pc = "applied" /\ callee = "parse_page") =>
        \A k \in 1..Len(ret) :
            /\ AllAsciiDigits(ret[k].single_core) \/ ret[k].single_core = NA
            /\ AllAsciiDigits(ret[k].multi_core) \/ ret[k].multi_core = NA

\* t is the text s without its leading and trailing whitespace
IsStripOf(t, s) ==
    /\ Len(t) = 0 \/ (~IsWhitespace(t[1]) /\ ~IsWhitespace(t[Len(t)]))
    /\ \E lead \in 0..Len(s) :
          /\ lead + Len(t) <= Len(s)
          /\ \A i \in 1..Len(s) :
                IF i > lead /\ i <= lead + Len(t)
                THEN s[i] = t[i - lead]
                ELSE IsWhitespace(s[i])

\* C9, amended: a score field is exactly "N/A" when its span is missing,
\* and otherwise the text of its span without surrounding whitespace,
\* whatever that text is (it may be empty or not numeric).
C9_ScoresSpanTextOrNA ==
    (pc = "applied" /\ callee = "parse_page" /\ arg.ok) =>
        \A i \in WellFormed(arg.containers) :
            LET scores == arg.containers[i].scores
                record == ret[Position(arg.containers, i)]
            IN  /\ IF Len(scores) > 0
                   THEN IsStripOf(record.single_core, scores[1])
                   ELSE record.single_core = NA
                /\ IF Len(scores) > 1
                   THEN IsStripOf(record.multi_core, scores[2])
                   ELSE record.multi_core = NA

\* a record of a container whose first score span holds a text that is
\* not numeric: that text, stripped, is its single_core
C9_Witness ==
    /\ pc = "applied"
    /\ callee = "parse_page"
    /\ arg.ok
    /\ \E k \in 1..Len(ret) :
          /\ ret[k].single_core = <<"n", "/", "a">>
          /\ ret[k].multi_core = <<"7">>

\* the indices of the records whose two scores are all-digit texts
Numeric(benchmarks) ==
    {i \in 1..Len(benchmarks) :
         /\ AllAsciiDigits(benchmarks[i].single_core)
         /\ AllAsciiDigits(benchmarks[i].multi_core)}

\* C10 as stated: calculate_statistics aggregates exactly the records whose
\* two scores are all-digit texts, and returns the empty mapping, without
\* raising, when there is none.
C10_StatisticsOverNumeric ==
    (pc = "applied" /\ callee = "calculate_statistics") =>
        LET Q == Numeric(arg)
            singles == {DecimalValue(arg[i].single_core) : i \in Q}
            multis == {DecimalValue(arg[i].multi_core) : i \in Q}
        IN  /\ ret.kind # "raise"
            /\ Q = {} => ret.kind = "empty"
            /\ Q # {} =>
                  /\ ret.kind = "stats"
                  /\ ret.sample_count = Cardinality(Q)
                  /\ ret.min_single_core \in singles
                  /\ ret.max_single_core \in singles
                  /\ ret.min_multi_core \in multis
                  /\ ret.max_multi_core \in multis
                  /\ \A v \in singles :
                         ret.min_single_core <= v /\ v <= ret.max_single_core
                  /\ \A v \in multis :
                         ret.min_multi_core <= v /\ v <= ret.max_multi_core

\* the sequence q in the order f
Permuted(q, f) == [i \in 1..Len(q) |-> q[f[i]]]

\* C11: calculate_statistics of any permutation of a collection is
\* calculate_statistics of the collection: the same mapping, the same empty
\* mapping, or in both cases the ValueError of int().
C11_OrderIndependent ==
    (pc = "applied" /\ callee = "calculate_statistics") =>
        \A f \in Permutations(1..Len(arg)) :
            calculate_statistics(Permuted(arg, f)) = ret

\* statistics of a collection whose first two records differ in both
\* scores and are both counted, the smaller scores not coming first
C11_Witness ==
    /\ pc = "applied"
    /\ callee = "calculate_statistics"
    /\ Len(arg) >= 2
    /\ ret.kind = "stats"
    /\ ret.sample_count >= 2
    /\ ret.min_single_core < int(arg[1].single_core)
    /\ ret.min_multi_core < ret.max_multi_core

\* C12: a collection as the scraper produces it (url None or a text,
\* scores "N/A" or any text, texts with characters JSON escapes), written
\* by create_json_output and read back by parse_input_file, is the same
\* collection: the same records, field by field, in the same order.
C12_JsonRoundTrip ==
    (pc = "applied" /\ callee = "create_json_output") => ret = <<arg>>

\* a collection with a record without url and with "N/A" scores, and a
\* record whose texts need escaping, has been written and read back
C12_Witness ==
    /\ pc = "applied"
    /\ callee = "create_json_output"
    /\ ret # <<>>
    /\ Len(ret[1]) >= 2
    /\ \E i \in 1..Len(arg) : arg[i].url = None /\ arg[i].single_core = NA
    /\ \E i \in 1..Len(arg) : Quote \in Range(arg[i].system)

\* C13 as stated: a collection as the scraper produces it (url absent,
\* scores "N/A", text fields that are the empty string), written by
\* create_xml_output and read back by parse_input_file, is the same
\* collection, field by field, in the same order.
C13_XmlRoundTrip ==
    (pc = "applied" /\ callee = "create_xml_output") => ret = <<arg>>

\* main was given neither a query nor an input file
Neither == ~args_query /\ args_file = <<>>

\* what create_json_output and create_xml_output write for at most one record
Written(ext) ==
    IF ext = "json"
    THEN {create_json_output(R) : R \in SeqsUpTo(StoredRecords, 1)}
    ELSE IF ext = "xml"
    THEN {create_xml_output(R) : R \in SeqsUpTo(StoredRecords, 1)}
    ELSE {}

\* main was given an input file that is missing, has an extension that is
\* not supported, or does not hold what a writer of its format writes
InputFileFails ==
    /\ args_file # <<>>
    /\ \/ disk = <<>>
       \/ args_file[1] \notin {"json", "xml"}
       \/ disk[1] \notin Written(args_file[1])

\* the scraper or the input file gave a collection without records
EmptyResult == results # <<>> /\ Len(results[1]) = 0

\* C14 as stated: the process ends with status 1 when neither a query nor
\* an input file is given, when the input file cannot be read, and when
\* the final collection is empty, and in no other case.
C14_ExitOne ==
    pc = "exit" =>
        (exit_code = 1 <=> (Neither \/ InputFileFails \/ EmptyResult))

\* C14, amended: without a query and without an input file the process
\* ends with status 2, the status of parser.error; it ends with status 1
\* exactly when the input file cannot be read or the final collection is
\* empty; otherwise it goes on to write the output.
C14_ExitOneOrUsage ==
    pc = "exit" =>
        /\ Neither => exit_code = 2
        /\ exit_code = 1 <=> (InputFileFails \/ EmptyResult)
        /\ exit_code = 0 <=> (~Neither /\ ~InputFileFails /\ ~EmptyResult)

\* main has ended on parser.error
C14_Witness ==
    /\ pc = "exit"
    /\ Neither
    /\ exit_code = 2

\* the futures whose parse_page is in progress
Running == {i \in 1..Len(futures) : futures[i].state = "running"}

\* at most max_workers invocations in progress, each run by one thread, and
\* with one thread every earlier page has ended when a page is in progress
C15_Bounded ==
    /\ Running # {} => Cardinality(Running) <= threads
    /\ \A i \in Running : Cardinality({w \in 1..MaxThreads : worker[w] = i}) = 1
    /\ \A w \in 1..MaxThreads : worker[w] # 0 => worker[w] \in Running
    /\ threads = 1 =>
          \A i \in Running : \A j \in 1..(i - 1) : futures[j].state = "finished"

\* a thread starts a page only when it runs none, and a page that has
\* started is never started again
C15_OneAtATime ==
    /\ \A w \in 1..MaxThreads :
          (worker'[w] # worker[w] /\ worker'[w] # 0) => worker[w] = 0
    /\ \A i \in 1..Len(futures) :
          (i \in Running' /\ i \notin Running) => futures[i].state = "pending"

\* C15: at every point the number of parse_page invocations in progress is
\* at most the pool size, and a thread starts its next queued page only
\* after its current invocation has ended; with pool size 1 the pages are
\* fetched strictly one after the other.
C15_PoolBound == []C15_Bounded /\ [][C15_OneAtATime]_vars

\* two invocations in progress in a pool of two, a third page waiting
C15_Witness ==
    /\ threads = 2
    /\ Cardinality(Running) = 2
    /\ Len(work_queue) > 0

RECURSIVE MergedResults(_)
\* the results of the first n futures, one after the other
MergedResults(n) ==
    IF n = 0 THEN <<>> ELSE MergedResults(n - 1) \o futures[n].result

\* once parse_geekbench has returned, every submitted invocation has ended
\* and its result is in the collection returned
C16_AllMerged ==
    (results # <<>> /\ via # "file") =>
        /\ work_queue = <<>>
        /\ \A w \in 1..MaxThreads : worker[w] = 0
        /\ \A i \in 1..Len(futures) :
              futures[i].state = "finished" /\ i \in yielded
        /\ BagOfSeq(results[1]) = BagOfSeq(MergedResults(Len(futures)))

\* all_benchmarks changes only by the result of one future added at its end
C16_AppendOnly ==
    all_benchmarks' # all_benchmarks =>
        \E i \in 1..Len(futures) :
            /\ i \notin yielded
            /\ yielded' = yielded \cup {i}
            /\ all_benchmarks' = all_benchmarks \o futures[i].result

\* C16: parse_geekbench returns only after every dispatched invocation has
\* ended and has been merged, so no caller sees a collection without the
\* records of a page that was dispatched and succeeded; the aggregate only
\* grows, by whole page results added at its end.
C16_ReturnAfterMerge == []C16_AllMerged /\ [][C16_AppendOnly]_vars

\* a run of at least two pages, each with records, has returned
C16_Witness ==
    /\ pc = "returned"
    /\ Len(futures) >= 2
    /\ \A i \in 1..Len(futures) : Len(futures[i].result) > 0
    /\ Len(results[1]) > Len(futures[1].result)

\* no page is started twice, a run that returns has started each of the
\* pages 1..pages_to_fetch once, and a page whose fetch failed has an empty
\* result
C17_Once ==
    /\ \A p \in 1..MaxPage : Count(p, dispatched) <= 1
    /\ \A p \in 2..MaxPage : requests_get[p] <= 1
    /\ (Returned /\ discovery = "ok" /\ threads >= 1) =>
          \A p \in 1..pages_to_fetch : Count(p, dispatched) = 1
    /\ \A i \in 1..Len(futures) :
          (futures[i].state = "finished" /\ transport[urls[i]] = "failed")
              => futures[i].result = <<>>

\* the outcome of a fetch and the result of a future that has ended stay
C17_Final ==
    /\ \A p \in 1..MaxPage :
          transport[p] # "pending" => transport'[p] = transport[p]
    /\ \A i \in 1..Len(futures) :
          futures[i].state = "finished" => futures'[i] = futures[i]

\* C17: no retries: each page of 1..pages_to_fetch is dispatched exactly
\* once, a page whose fetch failed is never fetched again within the run,
\* and its contribution stays empty.
C17_NoRetry == []C17_Once /\ [][C17_Final]_vars

\* a run has returned although the fetch of one of its pages failed
C17_Witness ==
    /\ pc = "returned"
    /\ discovery = "ok"
    /\ Len(dispatched) >= 2
    /\ \E p \in 1..Len(urls) : transport[p] = "failed"
    /\ \E p \in 1..Len(urls) : transport[p] = "ok"

\* What a returned run has dispatched and returned, in terms of the
\* arguments, the first page, the fetch outcomes and the order of
\* completion only: verbose does not occur.  Nothing is written without
\* verbose.
C18_SameRun ==
    /\ ~verbose => stdout_lines = 0
    /\ (results # <<>> /\ via # "file") =>
          IF discovery = "ok" /\ threads >= 1
          THEN /\ urls = Urls(PagesToFetch(TotalPages(first_page), max_pages))
               /\ Range(dispatched) = Range(urls)
               /\ yielded = 1..Len(urls)
               /\ results[1] = all_benchmarks
          ELSE /\ dispatched = <<>>
               /\ results[1] = <<>>

\* the collection grows by the records of a page that has ended, as its
\* fetch outcome gives them, in the order of completion
C18_SameMerge ==
    all_benchmarks' # all_benchmarks =>
        \E i \in 1..Len(futures) :
            /\ yielded' = yielded \cup {i}
            /\ all_benchmarks' =
                   all_benchmarks
                       \o parse_page(Response(urls[i], transport[urls[i]] = "ok"))

\* C18: verbose is observational only: the pages dispatched and the
\* collection returned are determined by the inputs, the fetch outcomes and
\* the completion order, whatever verbose is.
C18_VerboseObservational == []C18_SameRun /\ [][C18_SameMerge]_vars

\* a call without verbose has returned records, and has written nothing
C18_Witness ==
    /\ pc = "returned"
    /\ via = "call"
    /\ ~verbose
    /\ stdout_lines = 0
    /\ Len(dispatched) >= 2
    /\ Len(results[1]) > 0

RECURSIVE RecordsFrom(_, _)
\* the records of the pages m..n with the outcomes of transport
RecordsFrom(m, n) ==
    IF n < m THEN <<>>
    ELSE RecordsFrom(m, n - 1) \o parse_page(Response(n, transport[n] = "ok"))

\* C19: in a run whose discovery succeeds the first page is fetched twice,
\* once by parse_geekbench and once by parse_page for page 1, and the
\* response of the discovery is not used for records: when the second
\* fetch fails the run still returns, with the records of the other pages
\* and none of page 1.
C19_FirstPageTwice ==
    (Returned /\ discovery = "ok" /\ threads >= 1) =>
        /\ requests_get[1] = 2
        /\ Count(1, dispatched) = 1
        /\ transport[1] = "failed" =>
              BagOfSeq(results[1]) = BagOfSeq(RecordsFrom(2, Len(urls)))

\* discovery succeeded, the second fetch of page 1 failed, and the run has
\* returned the records of page 2
C19_Witness ==
    /\ pc = "returned"
    /\ discovery = "ok"
    /\ requests_get[1] = 2
    /\ transport[1] = "failed"
    /\ Len(urls) >= 2
    /\ transport[2] = "ok"
    /\ Len(results[1]) > 0

\* The run with the scheduling the termination claim assumes: every step
\* of the coordinator and of each thread that stays possible is taken.
SpecFair ==
    /\ Spec
    /\ WF_vars(Discover)
    /\ WF_vars(CreateExecutor)
    /\ WF_vars(Submit)
    /\ \A w \in 1..MaxThreads : WF_vars(WorkerTake(w)) /\ WF_vars(WorkerFinish(w))
    /\ \A i \in 1..MaxPage : WF_vars(Collect(i))
    /\ WF_vars(Return)

\* C20: with a pool of at least one thread, fetches that end and fair
\* scheduling, parse_geekbench, once called, returns: no page stays queued
\* without being started.
C20_Terminates == (pc = "discover" /\ threads >= 1) ~> Returned

\* a run with one thread and several pages, queued one behind the other,
\* has returned
C20_Witness ==
    /\ pc = "returned"
    /\ threads = 1
    /\ Len(urls) >= 2
    /\ Len(dispatched) = Len(urls)
    /\ results # <<>>

====
